---- MODULE Spec2Model ----
(***************************************************************************)
(* EasyEval: the evaluate-response edge function (the Evaluation Trigger)  *)
(* and the upload dialog that creates Submissions ("responses") and their  *)
(* Answers ("response_answers") and then invokes the Trigger.              *)
(*                                                                         *)
(* Nullable columns and optional values are encoded as tuples: <<>> is     *)
(* null/undefined and <<v>> is the value v.                                *)
(***************************************************************************)
EXTENDS Integers, Sequences, FiniteSets, TLC

VARIABLES exams, questions, responses, response_answers, runs, faults, now, uploads,
          inflight, form, ocr

dbVars == <<exams, questions, responses, response_answers>>
uploadVars == <<uploads, inflight>>
pageVars == <<form, ocr>>
vars == <<exams, questions, responses, response_answers, runs, faults, now, uploads,
          inflight, form, ocr>>

-----------------------------------------------------------------------------
(* Bounds of the model *)

MaxQuestions == 2
MaxQuestionMarks == 1
MaxRuns == 2
MaxFaults == 1
MaxUploads == 2
MaxFormQuestions == 3
MaxImageChanges == 3
RemarkDraws == 1

Null == <<>>
Some(v) == <<v>>
IsNull(o) == o = <<>>
Val(o) == o[1]

QuestionIds == 1..MaxQuestions
RunIds == 1..MaxRuns
UploadIds == 1..MaxUploads
TheExam == 1

\* auth.uid() of a request: the user who created the exam, or another user
Users == {"owner", "other"}

\* useAuth(): the user the pages of this browser are signed in as
SignedInUser == "owner"

\* public.exams as the pages find it: the exam and the user who created it
StoredExams == [e \in {TheExam} |-> [user_id |-> SignedInUser]]

\* questions.marks as the evaluator may find it: absent, or an integer >= 0
MarksDomain == {Null} \cup {Some(m) : m \in 0..MaxQuestionMarks}

-----------------------------------------------------------------------------
(* Pure helpers *)

RECURSIVE SumSeq(_)
SumSeq(s) == IF s = <<>> THEN 0 ELSE Head(s) + SumSeq(Tail(s))

\* all orders in which the rows of a set can be returned by a select
Orderings(S) ==
  {s \in [1..Cardinality(S) -> S] : \A i, j \in 1..Cardinality(S) : s[i] = s[j] => i = j}

\* Math.random() returns k / RandomDenominator for some k in RandomNumerators
RandomDenominator == MaxQuestionMarks + 2
RandomNumerators == 0..(RandomDenominator - 1)

\* Math.floor(Math.random() * n), the random value being k / d
FloorRandomTimes(k, d, n) == (k * n) \div d

-----------------------------------------------------------------------------
(* The Evaluation Trigger: supabase/functions/evaluate-response/index.ts *)

corsHeaders ==
  [h \in {"Access-Control-Allow-Origin", "Access-Control-Allow-Headers"} |->
     IF h = "Access-Control-Allow-Origin" THEN <<"*">>
     ELSE <<"authorization", "x-client-info", "apikey", "content-type">>]

\* { ...corsHeaders, 'Content-Type': 'application/json' }
JsonHeaders ==
  [h \in DOMAIN corsHeaders \cup {"Content-Type"} |->
     IF h \in DOMAIN corsHeaders THEN corsHeaders[h] ELSE <<"application/json">>]

\* createClient(SUPABASE_URL, SUPABASE_SERVICE_ROLE_KEY): the key every storage
\* call of the handler is made with
ClientKey == "service_role"

\* row level security of responses and response_answers: the service role
\* bypasses the policies; any other key reaches the rows of Submission rid only
\* for the user who owns the Submission's exam
PolicyAllows(key, user, rid) ==
  \/ key = "service_role"
  \/ rid \in DOMAIN responses /\ exams[responses[rid].exam_id].user_id = user

NumCannedRemarks == 6

\* the six canned remarks, by index 0..5
CannedRemark(idx) ==
  CASE idx = 0 -> "Good attempt with clear explanations"
    [] idx = 1 -> "Excellent work with minor errors"
    [] idx = 2 -> "Needs improvement in methodology"
    [] idx = 3 -> "Outstanding performance"
    [] idx = 4 -> "Partial credit for showing work"
    [] idx = 5 -> "Well structured answer"

\* const maxMarks = (answer as any).questions?.marks || 1
\* (|| takes the right side for undefined, null and 0)
MaxMarksOf(qmarks) == IF IsNull(qmarks) \/ Val(qmarks) = 0 THEN 1 ELSE Val(qmarks)

\* Math.floor(Math.random() * (maxMarks + 1))
EarnedMarks(k, maxMarks) == FloorRandomTimes(k, RandomDenominator, maxMarks + 1)

\* `Total: ${totalMarks} marks. ${allRemarks.length} questions evaluated.`
SummaryRemark(totalMarks, n) == <<"Total: ", totalMarks, " marks. ", n, " questions evaluated.">>

\* new Response(null, { headers: corsHeaders })
OptionsResponse == [status |-> 200, headers |-> corsHeaders, body |-> [kind |-> "empty"]]

SuccessResponseWithoutCount(totalMarks, n) ==
  [status |-> 200, headers |-> JsonHeaders,
   body |-> [kind |-> "success", success |-> TRUE, totalMarks |-> totalMarks]]

\* lines 93-100: JSON.stringify({ success: true, totalMarks, answersEvaluated })
SuccessResponse(totalMarks, n) ==
  [status |-> 200, headers |-> JsonHeaders,
   body |-> [kind |-> "success", success |-> TRUE, totalMarks |-> totalMarks,
             answersEvaluated |-> n]]

ErrorResponseNoCors(message) ==
  [status |-> 500, headers |-> [h \in {"Content-Type"} |-> <<"application/json">>],
   body |-> [kind |-> "error", error |-> message]]

\* lines 104-110: JSON.stringify({ error: error.message }), status 500
ErrorResponse(message) ==
  [status |-> 500, headers |-> JsonHeaders, body |-> [kind |-> "error", error |-> message]]

\* no response returned yet
NoResponse == [status |-> 0, headers |-> << >>, body |-> [kind |-> "none"]]

\* the handler's locals before a request has arrived; calls is the trace of the
\* storage calls the run has issued, pending the updates of Answers it has issued
\* and not seen resolve, earned the scores of the iterations that have ended,
\* failed the iterations whose update returned updateAnswerError
IdleRun ==
  [pc |-> "idle", caller |-> 0, user |-> "", method |-> "", jsonError |-> FALSE,
   responseId |-> Null, answersError |-> FALSE, responseAnswers |-> <<>>,
   pending |-> <<>>, earned |-> <<>>, totalMarks |-> 0, allRemarks |-> <<>>, failed |-> {},
   updateError |-> FALSE, calls |-> <<>>, response |-> NoResponse]

AnswersOfAnySubmission(rid) ==
  {a \in DOMAIN response_answers : response_answers[a].question_id \in DOMAIN questions}

\* the rows the select returns: response_answers of the submission, inner-joined
\* with their question's marks
AnswersOf(rid) ==
  {a \in DOMAIN response_answers :
      /\ response_answers[a].response_id = rid
      /\ response_answers[a].question_id \in DOMAIN questions}

JoinedRow(a) ==
  [id |-> a, question_id |-> response_answers[a].question_id,
   marks |-> questions[response_answers[a].question_id].marks]

\* catch (error): the 500 response
Caught(run, message) == [run EXCEPT !.pc = "done", !.response = ErrorResponse(message)]

IsPreflightNever(method) == FALSE

\* if (req.method === 'OPTIONS')
IsPreflight(method) == method = "OPTIONS"

\* A request arrives (the clock has advanced since the last one). OPTIONS is
\* answered at once; otherwise the JSON body is read: body.json is FALSE for a
\* body req.json() rejects, and body.responseId may be undefined. user is the
\* user the request is authenticated as; the handler does not read it.
Arrive(r, caller, user, method, body) ==
  /\ runs[r].pc = "idle"
  /\ LET run == [IdleRun EXCEPT !.caller = caller, !.user = user, !.method = method]
     IN runs' = [runs EXCEPT ![r] =
          IF IsPreflight(method)
            THEN [run EXCEPT !.pc = "done", !.response = OptionsResponse]
            ELSE IF ~body.json
              THEN Caught([run EXCEPT !.jsonError = TRUE], "json")
              ELSE [run EXCEPT !.pc = "fetch", !.responseId = body.responseId]]
  /\ now' = now + 1
  /\ UNCHANGED dbVars

\* a request of any client other than the upload dialog
Request(r, user, method, body) ==
  /\ Arrive(r, 0, user, method, body)
  /\ UNCHANGED <<faults, uploadVars, pageVars>>

AfterFetchIgnoringError(run, answersError, rows) ==
  [run EXCEPT !.pc = "loop", !.answersError = answersError,
              !.responseAnswers = IF answersError THEN <<>> ELSE rows]

AfterFetchRejectingEmpty(run, answersError, rows) ==
  IF answersError
    THEN Caught([run EXCEPT !.answersError = TRUE], "answersError")
    ELSE IF rows = <<>> THEN Caught(run, "no answers")
    ELSE [run EXCEPT !.pc = "loop", !.responseAnswers = rows]

\* if (answersError) throw answersError; else the loop runs over the rows
AfterFetch(run, answersError, rows) ==
  IF answersError
    THEN Caught([run EXCEPT !.answersError = TRUE], "answersError")
    ELSE [run EXCEPT !.pc = "loop", !.responseAnswers = rows]

\* lines 25-39: the select. An undefined responseId is no uuid, so the store
\* returns an error; any select may also fail.
FetchAnswers(r) ==
  /\ runs[r].pc = "fetch"
  /\ LET run == [runs[r] EXCEPT !.calls = Append(@, "select")]
     IN \/ /\ IsNull(run.responseId)
           /\ runs' = [runs EXCEPT ![r] = AfterFetch(run, TRUE, <<>>)]
           /\ UNCHANGED faults
        \/ /\ ~IsNull(run.responseId)
           /\ faults < MaxFaults
           /\ faults' = faults + 1
           /\ runs' = [runs EXCEPT ![r] = AfterFetch(run, TRUE, <<>>)]
        \/ /\ ~IsNull(run.responseId)
           /\ \E order \in Orderings({a \in AnswersOf(Val(run.responseId)) :
                                         PolicyAllows(ClientKey, run.user, Val(run.responseId))}) :
                runs' = [runs EXCEPT ![r] =
                   AfterFetch(run, FALSE, [i \in 1..Len(order) |-> JoinedRow(order[i])])]
           /\ UNCHANGED faults
  /\ UNCHANGED <<dbVars, now, uploadVars, pageVars>>

OnUpdateAnswerErrorThrow(run, i) == Caught([run EXCEPT !.failed = @ \cup {i}], "updateAnswerError")

\* if (updateAnswerError) console.error(...): logged, nothing else
OnUpdateAnswerError(run, i) == [run EXCEPT !.failed = @ \cup {i}]

NextTotalPersistedOnly(totalMarks, earnedMarks, updateAnswerError) ==
  IF updateAnswerError THEN totalMarks ELSE totalMarks + earnedMarks

\* totalMarks += earnedMarks, whatever the update returned
NextTotal(totalMarks, earnedMarks, updateAnswerError) == totalMarks + earnedMarks

MayIssueWithoutAwaiting(run) == TRUE

\* await supabaseClient...update(...): the loop body does not go on, and the next
\* iteration does not start, while an update of this run is outstanding
MayIssue(run) == run.pending = <<>>

\* lines 47-69: an iteration of the loop up to the await: the two random draws k1
\* and k2 make the score and the remark, and the update of the Answer is issued
IssueAnswerUpdate(r, k1, k2) ==
  /\ runs[r].pc = "loop"
  /\ MayIssue(runs[r])
  /\ Len(runs[r].earned) + Len(runs[r].pending) < Len(runs[r].responseAnswers)
  /\ LET i == Len(runs[r].earned) + Len(runs[r].pending) + 1
         answer == runs[r].responseAnswers[i]
         maxMarks == MaxMarksOf(answer.marks)
         earnedMarks == EarnedMarks(k1, maxMarks)
         remarks == CannedRemark(FloorRandomTimes(k2, RemarkDraws, NumCannedRemarks))
     IN runs' = [runs EXCEPT ![r] =
          [@ EXCEPT !.calls = Append(@, "updateAnswer"),
                    !.pending = Append(@, [i |-> i, id |-> answer.id,
                                           question_id |-> answer.question_id,
                                           maxMarks |-> maxMarks, marks |-> earnedMarks, remarks |-> remarks,
                                           evaluated_at |-> now])]]
  /\ UNCHANGED <<dbVars, faults, now, uploadVars, pageVars>>

\* lines 62-76: the update the run awaits takes effect, or fails with
\* updateAnswerError, and the iteration ends
AwaitAnswerUpdate(r, updateAnswerError) ==
  /\ runs[r].pc = "loop"
  /\ runs[r].pending # <<>>
  /\ LET update == Head(runs[r].pending)
         resumed == [runs[r] EXCEPT !.pending = Tail(@)]
         logged == IF updateAnswerError THEN OnUpdateAnswerError(resumed, update.i) ELSE resumed
     IN /\ IF updateAnswerError
             THEN /\ faults < MaxFaults
                  /\ faults' = faults + 1
                  /\ UNCHANGED response_answers
             ELSE /\ UNCHANGED faults
                  /\ response_answers' =
                       IF /\ update.id \in DOMAIN response_answers
                          /\ PolicyAllows(ClientKey, runs[r].user,
                                          response_answers[update.id].response_id)
                         THEN [response_answers EXCEPT ![update.id].marks = Some(update.marks),
                                                       ![update.id].remarks = Some(update.remarks),
                                                       ![update.id].evaluated_at = Some(update.evaluated_at)]
                         ELSE response_answers
        /\ runs' = [runs EXCEPT ![r] =
                      [logged EXCEPT
                         !.earned = Append(@, update.marks),
                         !.totalMarks = NextTotal(@, update.marks, updateAnswerError),
                         !.allRemarks = Append(@, <<"Q", update.question_id, ": ", update.remarks>>)]]
  /\ UNCHANGED <<exams, questions, responses, now, uploadVars, pageVars>>

AfterAggregateSwallowing(run, updateError) ==
  [run EXCEPT !.pc = "done", !.updateError = updateError,
              !.response = SuccessResponse(run.totalMarks, Len(run.responseAnswers))]

\* if (updateError) throw updateError; else the success response
AfterAggregate(run, updateError) ==
  IF updateError
    THEN Caught([run EXCEPT !.updateError = TRUE], "updateError")
    ELSE [run EXCEPT !.pc = "done",
                     !.response = SuccessResponse(run.totalMarks, Len(run.responseAnswers))]

ResponseUpdateWithoutTimestamp(totalMarks, n, at) ==
  [marks |-> Some(totalMarks), remarks |-> Some(SummaryRemark(totalMarks, n))]

\* lines 82-86: the columns .update({ marks, remarks, evaluated_at }) sets
ResponseUpdate(totalMarks, n, at) ==
  [marks |-> Some(totalMarks), remarks |-> Some(SummaryRemark(totalMarks, n)),
   evaluated_at |-> Some(at)]

\* a row with the columns an update names set to the update's values
Updated(row, update) ==
  [c \in DOMAIN row |-> IF c \in DOMAIN update THEN update[c] ELSE row[c]]

LoopEndedAnytime(run) == run.pending = <<>>

\* the for...of loop is left when every fetched row has had its iteration
LoopEnded(run) == Len(run.earned) = Len(run.responseAnswers)

\* lines 79-111: the update of the responses row, then the response
Aggregate(r, updateError) ==
  /\ runs[r].pc = "loop"
  /\ LoopEnded(runs[r])
  /\ LET rid == runs[r].responseId
         totalMarks == runs[r].totalMarks
         n == Len(runs[r].allRemarks)
         issued == [runs[r] EXCEPT !.calls = Append(@, "updateResponse")]
     IN /\ IF updateError
             THEN /\ faults < MaxFaults
                  /\ faults' = faults + 1
                  /\ UNCHANGED responses
             ELSE /\ UNCHANGED faults
                  /\ responses' =
                       IF /\ ~IsNull(rid) /\ Val(rid) \in DOMAIN responses
                          /\ PolicyAllows(ClientKey, runs[r].user, Val(rid))
                         THEN [responses EXCEPT ![Val(rid)] =
                                 Updated(@, ResponseUpdate(totalMarks, n, now))]
                         ELSE responses
        /\ runs' = [runs EXCEPT ![r] = AfterAggregate(issued, updateError)]
  /\ UNCHANGED <<exams, questions, response_answers, now, uploadVars, pageVars>>

-----------------------------------------------------------------------------
(* The upload dialog: UploadResponse.handleSubmit (multi-answer)           *)

\* a row as an insert that names these columns creates it
NewResponseRow(exam, roll) ==
  [exam_id |-> exam, roll_number |-> roll, image_url |-> Null,
   marks |-> Null, remarks |-> Null, evaluated_at |-> Null]

NewAnswerRow(rid, q, imageUrl, answerText) ==
  [response_id |-> rid, question_id |-> q, image_url |-> imageUrl,
   answer_text |-> answerText, marks |-> Null, remarks |-> Null, evaluated_at |-> Null]

\* String.prototype.trim on a string given as its sequence of characters
RECURSIVE TrimStart(_)
TrimStart(str) == IF str # <<>> /\ Head(str) = " " THEN TrimStart(Tail(str)) ELSE str

RECURSIVE TrimEnd(_)
TrimEnd(str) ==
  IF str # <<>> /\ str[Len(str)] = " " THEN TrimEnd(SubSeq(str, 1, Len(str) - 1)) ELSE str

Trim(str) == TrimEnd(TrimStart(str))

\* what the form may hold when it is submitted. The first dialog's roll number is
\* blank or "7"; its first question holds nothing, blank text or text, its other
\* questions nothing or an image. The other dialogs' roll number is "7 " (the
\* same roll once trimmed) or "8", and they hold a text for the first question.
RollInputs(u) == IF u = 1 THEN {<<" ">>, <<"7">>} ELSE {<<"7", " ">>, <<"8">>}
NoInput == [answerText |-> <<>>, imageFile |-> FALSE]
AnswerInputs(u, q) ==
  IF u = 1
    THEN IF q = 1
           THEN {NoInput, [answerText |-> <<" ">>, imageFile |-> FALSE],
                 [answerText |-> <<"x">>, imageFile |-> FALSE]}
           ELSE {NoInput, [answerText |-> <<>>, imageFile |-> TRUE]}
    ELSE IF q = 1 THEN {[answerText |-> <<"x">>, imageFile |-> FALSE]} ELSE {NoInput}
FormInputs(u) ==
  {f \in [QuestionIds -> UNION {AnswerInputs(u, q) : q \in QuestionIds}] :
     \A q \in QuestionIds : f[q] \in AnswerInputs(u, q)}

\* gen_random_uuid(): an id no row of the table has
NewId(ids) == IF ids = {} THEN 1 ELSE (CHOOSE i \in ids : \A j \in ids : j <= i) + 1

\* the dialog's state and, while handleSubmit runs, its locals
IdleUpload ==
  [pc |-> "idle", rollNumber |-> <<>>, answers |-> <<>>, isUploading |-> FALSE,
   isEvaluating |-> FALSE, response |-> Null, run |-> 0, toasts |-> <<>>,
   invoked |-> 0, onSuccess |-> 0]

\* answer.answerText.trim() || null
TrimmedOrNull(text) == IF Trim(text) = <<>> THEN Null ELSE Some(Trim(text))

\* handleSubmit reads a question's input only as answerText.trim() and as
\* imageFile being set or not, so its locals hold the input in that form
Snapshot(answers) ==
  [q \in DOMAIN answers |->
     [answerText |-> TrimmedOrNull(answers[q].answerText), imageFile |-> answers[q].imageFile]]

HasAnswerUnchecked(answers) == TRUE

\* Object.values(answers).some(a => a.answerText.trim() || a.imageFile)
HasAnswer(answers) ==
  \E q \in DOMAIN answers : ~IsNull(TrimmedOrNull(answers[q].answerText)) \/ answers[q].imageFile

\* a return from handleSubmit that leaves the dialog open: its locals are gone
Returned(up, message) ==
  [IdleUpload EXCEPT !.toasts = Append(up.toasts, message), !.invoked = up.invoked,
                     !.isUploading = up.isUploading, !.isEvaluating = up.isEvaluating]

UploadCaughtKeepingFlags(up) == Returned(up, "Failed to upload response")

\* catch (error): toast.error, setIsUploading(false), setIsEvaluating(false)
UploadCaught(up) ==
  [Returned(up, "Failed to upload response") EXCEPT !.isUploading = FALSE,
                                                     !.isEvaluating = FALSE]

\* lines 215-216: setIsEvaluating(false); onSuccess(), which closes the dialog
Closed(up) ==
  [IdleUpload EXCEPT !.pc = "closed", !.isUploading = up.isUploading, !.toasts = up.toasts,
                     !.invoked = up.invoked, !.response = up.response,
                     !.onSuccess = up.onSuccess + 1]

\* lines 383-386: the submit button is disabled={... || isUploading || isEvaluating}
SubmitEnabled(up) == ~up.isUploading /\ ~up.isEvaluating

\* lines 109-126: the form of an open dialog is submitted holding rollNumber and
\* answers
HandleSubmit(u, rollNumber, answers) ==
  /\ uploads[u].pc # "closed"
  /\ SubmitEnabled(uploads[u])
  /\ LET up == [uploads[u] EXCEPT !.toasts = <<>>]
     IN uploads' = [uploads EXCEPT ![u] =
          IF Trim(rollNumber) = <<>>
            THEN Returned(up, "Please provide roll number")
            ELSE IF ~HasAnswer(answers)
              THEN Returned(up, "Please provide at least one answer")
              ELSE [up EXCEPT !.pc = "check", !.rollNumber = rollNumber,
                              !.answers = Snapshot(answers), !.isUploading = TRUE]]
  /\ UNCHANGED <<dbVars, runs, faults, now, inflight, pageVars>>

\* the rows .eq('exam_id', examId).eq('roll_number', rollNumber.trim()) selects
ExistingResponses(examId, roll) ==
  {id \in DOMAIN responses :
     responses[id].exam_id = examId /\ responses[id].roll_number = roll}

\* lines 129-141: the select of an existing Submission; its error is not read,
\* so a failed select looks like no row
CheckExisting(u, selectFails) ==
  /\ uploads[u].pc = "check"
  /\ LET up == uploads[u]
         existingResponse ==
           ~selectFails /\ ExistingResponses(TheExam, Trim(up.rollNumber)) # {}
     IN /\ IF selectFails THEN faults < MaxFaults /\ faults' = faults + 1
                          ELSE UNCHANGED faults
        /\ uploads' = [uploads EXCEPT ![u] =
             IF existingResponse
               THEN [Returned(up, "A response with this roll number already exists")
                       EXCEPT !.isUploading = FALSE]
               ELSE [up EXCEPT !.pc = "insert"]]
  /\ UNCHANGED <<dbVars, runs, now, inflight, pageVars>>

ViolatesUniqueNever(rows, row) == FALSE

\* UNIQUE(exam_id, roll_number) of public.responses
ViolatesUnique(rows, row) ==
  \E id \in DOMAIN rows :
     rows[id].exam_id = row.exam_id /\ rows[id].roll_number = row.roll_number

AnswerOpsForEveryQuestion(u, rid, answers) ==
  {[owner |-> u, response_id |-> rid, question_id |-> q,
    stage |-> IF answers[q].imageFile THEN "upload" ELSE "insert",
    image_url |-> Null, answer_text |-> answers[q].answerText] : q \in DOMAIN answers}

\* exam_id UUID NOT NULL REFERENCES public.exams(id): the exam must be stored
ViolatesExamReference(row) == row.exam_id \notin DOMAIN exams

\* the promise answerPromises holds for one question, as it stands when the map
\* returns: awaiting the image upload, or the insert, or nothing to do
AnswerOps(u, rid, answers) ==
  {[owner |-> u, response_id |-> rid, question_id |-> q,
    stage |-> IF answers[q].imageFile THEN "upload" ELSE "insert",
    image_url |-> Null, answer_text |-> answers[q].answerText] :
     q \in {x \in DOMAIN answers : answers[x].imageFile \/ ~IsNull(answers[x].answerText)}}

\* lines 143-190: the insert of the responses row, then the map that starts one
\* promise per question; rollNumber and answers are not read again
InsertResponse(u, insertFails) ==
  /\ uploads[u].pc = "insert"
  /\ LET up == uploads[u]
         row == NewResponseRow(TheExam, Trim(up.rollNumber))
         id == NewId(DOMAIN responses)
         responseError == insertFails \/ ViolatesUnique(responses, row)
                            \/ ViolatesExamReference(row)
     IN /\ IF insertFails THEN faults < MaxFaults /\ faults' = faults + 1
                          ELSE UNCHANGED faults
        /\ IF responseError
             THEN /\ uploads' = [uploads EXCEPT ![u] = UploadCaught(up)]
                  /\ UNCHANGED <<responses, inflight>>
             ELSE /\ responses' = (id :> row) @@ responses
                  /\ inflight' = inflight \cup AnswerOps(u, id, up.answers)
                  /\ uploads' = [uploads EXCEPT ![u] =
                                   [up EXCEPT !.pc = "answers", !.response = Some(id),
                                              !.rollNumber = <<>>, !.answers = <<>>]]
  /\ UNCHANGED <<exams, questions, response_answers, runs, now, pageVars>>

\* the promises of a handleSubmit that has returned run on without it
Orphaned(ops, u) == {IF op.owner = u THEN [op EXCEPT !.owner = 0] ELSE op : op \in ops}

\* lines 160-176: the upload of one answer's image; uploadError rejects the
\* promise, and with it Promise.all
UploadImage(op, uploadError) ==
  /\ op \in inflight
  /\ op.stage = "upload"
  /\ IF uploadError
       THEN /\ faults < MaxFaults
            /\ faults' = faults + 1
            /\ inflight' = Orphaned(inflight \ {op}, op.owner)
            /\ uploads' = IF op.owner = 0 THEN uploads
                          ELSE [uploads EXCEPT ![op.owner] = UploadCaught(@)]
       ELSE /\ UNCHANGED <<faults, uploads>>
            /\ inflight' = (inflight \ {op}) \cup
                 {[op EXCEPT !.stage = "insert",
                             !.image_url = Some(<<TheExam, op.response_id, op.question_id>>)]}
  /\ UNCHANGED <<dbVars, runs, now, pageVars>>

\* UNIQUE(response_id, question_id) and the foreign keys of response_answers
AnswerInsertRejected(rows, row) ==
  \/ \E id \in DOMAIN rows : rows[id].response_id = row.response_id
                              /\ rows[id].question_id = row.question_id
  \/ row.response_id \notin DOMAIN responses
  \/ row.question_id \notin DOMAIN questions

\* lines 178-188: the insert of one response_answers row; its error is not read
InsertAnswer(op, insertFails) ==
  /\ op \in inflight
  /\ op.stage = "insert"
  /\ LET row == NewAnswerRow(op.response_id, op.question_id, op.image_url, op.answer_text)
     IN /\ IF insertFails THEN faults < MaxFaults /\ faults' = faults + 1
                          ELSE UNCHANGED faults
        /\ response_answers' =
             IF insertFails \/ AnswerInsertRejected(response_answers, row)
               THEN response_answers
               ELSE (NewId(DOMAIN response_answers) :> row) @@ response_answers
        /\ inflight' = inflight \ {op}
  /\ UNCHANGED <<exams, questions, responses, runs, now, uploads, pageVars>>

AfterEvaluationRethrowing(up, evalError) ==
  IF evalError THEN UploadCaught(up)
  ELSE [Closed(up) EXCEPT !.toasts = Append(@, "Response evaluated successfully!")]

\* lines 204-216: the invocation returned evalError or threw (both the warning),
\* or succeeded; then setIsEvaluating(false) and onSuccess() in every case
AfterEvaluation(up, evalError) ==
  [Closed(up) EXCEPT
     !.toasts = Append(@, IF evalError
        THEN "Response uploaded but evaluation failed. You can retry later."
        ELSE "Response evaluated successfully!")]

AllSettledUnawaited(ops, u) == TRUE

\* await Promise.all(answerPromises): every promise the submit of dialog u
\* started has resolved
AllSettled(ops, u) == \A op \in ops : op.owner # u

\* lines 192-202: Promise.all has resolved; the evaluation is invoked and either
\* reaches the Trigger (as run r) or fails on the way
Invoke(u, r, reaches) ==
  /\ uploads[u].pc = "answers"
  /\ AllSettled(inflight, u)
  /\ LET up == [uploads[u] EXCEPT !.toasts = Append(@, "Response uploaded successfully!"),
                                  !.isEvaluating = TRUE, !.invoked = @ + 1]
     IN IF reaches
          THEN /\ Arrive(r, u, SignedInUser, "POST", [json |-> TRUE, responseId |-> up.response])
               /\ uploads' = [uploads EXCEPT ![u] = [up EXCEPT !.pc = "evaluating", !.run = r]]
               /\ UNCHANGED faults
          ELSE /\ r = 1
               /\ faults < MaxFaults
               /\ faults' = faults + 1
               /\ uploads' = [uploads EXCEPT ![u] = AfterEvaluation(up, TRUE)]
               /\ UNCHANGED <<dbVars, runs, now>>
  /\ UNCHANGED <<inflight, pageVars>>

\* lines 204-216: the invocation has returned; a status outside 2xx is evalError.
\* The handler instance that served it is gone.
EvaluationReturns(u) ==
  /\ uploads[u].pc = "evaluating"
  /\ runs[uploads[u].run].pc = "done"
  /\ LET evalError == runs[uploads[u].run].response.status \notin 200..299
     IN /\ uploads' = [uploads EXCEPT ![u] = AfterEvaluation(@, evalError)]
        /\ runs' = [runs EXCEPT ![uploads[u].run] = IdleRun]
  /\ UNCHANGED <<dbVars, faults, now, inflight, pageVars>>

-----------------------------------------------------------------------------
(* The exam creation form: pages/CreateExam.tsx                            *)

\* useState<Question[]>([{ id: '1', questionText: '', answerKey: '', marks: 1 }])
NewQuestion(id) == [id |-> id, questionText |-> <<>>, answerKey |-> <<>>, marks |-> 1]

\* the form's state and, while handleSubmit runs, its locals: questions is the
\* list on screen, submitted the list handleSubmit closed over, exam the row the
\* insert returned
InitialForm ==
  [pc |-> "edit", questions |-> <<NewQuestion("1")>>, isSubmitting |-> FALSE,
   submitted |-> <<>>, exam |-> Null, toasts |-> <<>>]

\* what may be typed into a text field, and into the marks field
FieldInputs == {<<" ">>, <<"t", " ">>}
MarksInputs == {Null} \cup {Some(m) : m \in 0..(MaxQuestionMarks + 1)}

\* parseInt(e.target.value) || 1, value being the number typed, or none
ParsedMarks(value) == IF IsNull(value) \/ Val(value) = 0 THEN 1 ELSE Val(value)

\* questions.filter(q => q.id !== id)
RECURSIVE Without(_, _)
Without(list, id) ==
  IF list = <<>> THEN <<>>
  ELSE IF Head(list).id = id THEN Without(Tail(list), id)
  ELSE <<Head(list)>> \o Without(Tail(list), id)

\* const newId = (questions.length + 1).toString()
NewQuestionId(list) == ToString(Len(list) + 1)

\* lines 30-33: addQuestion (the list is kept to MaxFormQuestions questions)
AddQuestion ==
  /\ form.pc = "edit"
  /\ Len(form.questions) < MaxFormQuestions
  /\ form' = [form EXCEPT !.questions = Append(@, NewQuestion(NewQuestionId(@)))]
  /\ UNCHANGED <<dbVars, runs, faults, now, uploadVars, ocr>>

\* lines 35-39: removeQuestion(id), id being that of a question on screen
RemoveQuestion(id) ==
  /\ form.pc = "edit"
  /\ \E i \in 1..Len(form.questions) : form.questions[i].id = id
  /\ form' = [form EXCEPT !.questions = IF Len(@) > 1 THEN Without(@, id) ELSE @]
  /\ UNCHANGED <<dbVars, runs, faults, now, uploadVars, ocr>>

\* questions.map(q => q.id === id ? { ...q, [field]: value } : q)
WithField(list, id, field, value) ==
  [i \in 1..Len(list) |->
     IF list[i].id = id THEN [list[i] EXCEPT ![field] = value] ELSE list[i]]

\* lines 41-45: updateQuestion(id, field, value) from the inputs of question id
UpdateQuestion(id, field, value) ==
  /\ form.pc = "edit"
  /\ \E i \in 1..Len(form.questions) : form.questions[i].id = id
  /\ form' = [form EXCEPT !.questions = WithField(@, id, field, value)]
  /\ form'.questions # form.questions
  /\ UNCHANGED <<dbVars, runs, faults, now, uploadVars, ocr>>

\* catch (error) then finally: the toast, setIsSubmitting(false)
FormCaught(f) ==
  [f EXCEPT !.pc = "edit", !.isSubmitting = FALSE, !.submitted = <<>>, !.exam = Null,
            !.toasts = Append(@, "Failed to create exam")]

\* lines 47-60: handleSubmit up to setIsSubmitting(true); the user is signed in
\* and the submit button is enabled
CreateExamSubmit ==
  /\ form.pc = "edit"
  /\ ~form.isSubmitting
  /\ form' =
       IF \E i \in 1..Len(form.questions) :
             Trim(form.questions[i].questionText) = <<>> \/ Trim(form.questions[i].answerKey) = <<>>
         THEN [form EXCEPT !.toasts = <<"Please fill in all question fields">>]
         ELSE [form EXCEPT !.pc = "insertExam", !.isSubmitting = TRUE,
                           !.submitted = form.questions, !.toasts = <<>>]
  /\ form' # form
  /\ UNCHANGED <<dbVars, runs, faults, now, uploadVars, ocr>>

\* lines 63-74: the insert of the exams row; examError is thrown
InsertExam(examError) ==
  /\ form.pc = "insertExam"
  /\ IF examError
       THEN /\ faults < MaxFaults
            /\ faults' = faults + 1
            /\ form' = FormCaught(form)
            /\ UNCHANGED exams
       ELSE /\ UNCHANGED faults
            /\ exams' = (NewId(DOMAIN exams) :> [user_id |-> SignedInUser]) @@ exams
            /\ form' = [form EXCEPT !.pc = "insertQuestions",
                                    !.exam = Some(NewId(DOMAIN exams))]
  /\ UNCHANGED <<questions, responses, response_answers, runs, now, uploadVars, ocr>>

\* lines 77-83: questions.map((question, index) => ({ ... question_number: index + 1 }))
QuestionsToInsert(examId, list) ==
  [index \in 1..Len(list) |->
     [exam_id |-> examId, question_text |-> Trim(list[index].questionText),
      answer_key |-> Trim(list[index].answerKey), question_number |-> index,
      marks |-> Some(list[index].marks)]]

\* the rows of a table after one insert of a list of rows, each under a new id
RECURSIVE Inserted(_, _)
Inserted(rows, list) ==
  IF list = <<>> THEN rows
  ELSE Inserted((NewId(DOMAIN rows) :> Head(list)) @@ rows, Tail(list))

\* lines 85-97: the one insert of all the questions rows; questionsError is
\* thrown and the exams row stays; otherwise the page navigates to the exam
InsertQuestions(questionsError) ==
  /\ form.pc = "insertQuestions"
  /\ LET rows == QuestionsToInsert(Val(form.exam), form.submitted)
         rejected == questionsError \/ Val(form.exam) \notin DOMAIN exams
     IN /\ IF questionsError THEN faults < MaxFaults /\ faults' = faults + 1
                             ELSE UNCHANGED faults
        /\ IF rejected
             THEN /\ form' = FormCaught(form)
                  /\ UNCHANGED questions
             ELSE /\ questions' = Inserted(questions, rows)
                  /\ form' = [form EXCEPT !.pc = "navigated", !.isSubmitting = FALSE,
                                          !.toasts = Append(@, "Exam created successfully!")]
  /\ UNCHANGED <<exams, responses, response_answers, runs, now, uploadVars, ocr>>

-----------------------------------------------------------------------------
(* The schema: ON DELETE CASCADE                                           *)

CascadeFromNothing(rows, column, kept) == rows

\* REFERENCES ... ON DELETE CASCADE: the rows whose column still names a kept row
CascadeFrom(rows, column, kept) ==
  [id \in {i \in DOMAIN rows : rows[i][column] \in kept} |-> rows[id]]

\* DELETE FROM public.exams WHERE id = e, with the cascades of the foreign keys
DeleteExam(e) ==
  /\ e \in DOMAIN exams
  /\ LET keptExams == DOMAIN exams \ {e}
         keptQuestions == CascadeFrom(questions, "exam_id", keptExams)
         keptResponses == CascadeFrom(responses, "exam_id", keptExams)
     IN /\ exams' = [x \in keptExams |-> exams[x]]
        /\ questions' = keptQuestions
        /\ responses' = keptResponses
        /\ response_answers' =
             CascadeFrom(CascadeFrom(response_answers, "response_id", DOMAIN keptResponses),
                         "question_id", DOMAIN keptQuestions)
  /\ UNCHANGED <<runs, faults, now, uploadVars, pageVars>>

-----------------------------------------------------------------------------
(* The OCR helper: components/HTRTrace.tsx                                  *)

\* the images the parent may supply, and result.data.text for each
Images == {"A", "B"}
TextOf(image) == <<"text of ", image>>

\* the component's props and state; recognitions are the Tesseract.recognize
\* calls still running, extracted the texts passed to onTextExtracted, changes
\* the number of times the imageFile prop has changed
IdleOcr ==
  [imageFile |-> Null, text |-> <<>>, status |-> "", isProcessing |-> FALSE,
   recognitions |-> {}, extracted |-> <<>>, changes |-> 0]

\* lines 21-62: the effect of a change of the imageFile prop: nothing for null,
\* else processImage up to the await of Tesseract.recognize
SetImageFile(imageFile) ==
  /\ imageFile # ocr.imageFile
  /\ ocr.changes < MaxImageChanges
  /\ ocr' =
       IF IsNull(imageFile)
         THEN [ocr EXCEPT !.imageFile = imageFile, !.changes = @ + 1]
         ELSE [ocr EXCEPT !.imageFile = imageFile, !.changes = @ + 1,
                          !.isProcessing = TRUE, !.status = "Initializing OCR...",
                          !.text = <<>>,
                          !.recognitions = @ \cup {[n |-> ocr.changes + 1,
                                                    image |-> Val(imageFile)]}]
  /\ UNCHANGED <<dbVars, runs, faults, now, uploadVars, form>>

\* lines 36-43: the logger reports the progress of a running recognition
Logger(rec) ==
  /\ rec \in ocr.recognitions
  /\ ocr.status # "recognizing text"
  /\ ocr' = [ocr EXCEPT !.status = "recognizing text"]
  /\ UNCHANGED <<dbVars, runs, faults, now, uploadVars, form>>

\* lines 47-58: a recognition resolves (setText, onTextExtracted) or rejects
\* (the error status); finally setIsProcessing(false)
RecognitionEnds(rec, err) ==
  /\ rec \in ocr.recognitions
  /\ IF err THEN faults < MaxFaults /\ faults' = faults + 1 ELSE UNCHANGED faults
  /\ ocr' =
       IF err
         THEN [ocr EXCEPT !.recognitions = @ \ {rec}, !.isProcessing = FALSE,
                          !.status = "Error during recognition"]
         ELSE [ocr EXCEPT !.recognitions = @ \ {rec}, !.isProcessing = FALSE,
                          !.text = TextOf(rec.image),
                          !.extracted = Append(@, TextOf(rec.image))]
  /\ UNCHANGED <<dbVars, runs, now, uploadVars, form>>

-----------------------------------------------------------------------------
(* Specification of the Trigger: Submissions already uploaded, requests    *)
(* arriving from any client.                                               *)

\* the bodies a client may post
Bodies(ids) ==
  {[json |-> FALSE, responseId |-> Null], [json |-> TRUE, responseId |-> Null]}
    \cup {[json |-> TRUE, responseId |-> Some(id)] : id \in ids}

\* Submission k of the stored exam answers the questions k..MaxQuestions, so the
\* last Submission has no Answer; one more id matches no Submission.
StoredResponseIds == 1..(MaxQuestions + 1)
UnknownResponseId == MaxQuestions + 2

StoredAnswerKeys == {<<s, q>> \in StoredResponseIds \X QuestionIds : q >= s}
StoredAnswerId(s, q) == (s - 1) * MaxQuestions + q

Init ==
  /\ exams = StoredExams
  /\ form = InitialForm
  /\ ocr = IdleOcr
  /\ questions \in [QuestionIds -> [exam_id : {TheExam}, marks : MarksDomain]]
  /\ responses = [s \in StoredResponseIds |-> NewResponseRow(TheExam, <<ToString(s)>>)]
  /\ response_answers =
       [a \in {StoredAnswerId(k[1], k[2]) : k \in StoredAnswerKeys} |->
          LET k == CHOOSE x \in StoredAnswerKeys : StoredAnswerId(x[1], x[2]) = a
          IN NewAnswerRow(k[1], k[2], Null, Some(<<"x">>))]
  /\ runs = [r \in RunIds |-> IdleRun]
  /\ faults = 0
  /\ now = 0
  /\ uploads = [u \in UploadIds |-> IdleUpload]
  /\ inflight = {}

Next ==
  \/ \E r \in RunIds, user \in Users, method \in {"OPTIONS", "POST"},
        body \in Bodies(StoredResponseIds \cup {UnknownResponseId}) :
       Request(r, user, method, body)
  \/ \E r \in RunIds : FetchAnswers(r)
  \/ \E r \in RunIds, k1 \in RandomNumerators, k2 \in 0..(RemarkDraws - 1) :
       IssueAnswerUpdate(r, k1, k2)
  \/ \E r \in RunIds, updateAnswerError \in BOOLEAN : AwaitAnswerUpdate(r, updateAnswerError)
  \/ \E r \in RunIds, updateError \in BOOLEAN : Aggregate(r, updateError)

Spec == Init /\ [][Next]_vars

-----------------------------------------------------------------------------
(* Specification of the upload dialogs: an exam with its questions and no  *)
(* Submission yet; each dialog uploads and has the Trigger evaluate.       *)

\* the questions are those the creation form stores: marks is an integer >= 1
InitUpload ==
  /\ exams = StoredExams
  /\ form = InitialForm
  /\ ocr = IdleOcr
  /\ questions \in [QuestionIds -> [exam_id : {TheExam},
                                     marks : {Some(m) : m \in 1..MaxQuestionMarks}]]
  /\ responses = << >>
  /\ response_answers = << >>
  /\ runs = [r \in RunIds |-> IdleRun]
  /\ faults = 0
  /\ now = 0
  /\ uploads = [u \in UploadIds |-> IdleUpload]
  /\ inflight = {}

NextUpload ==
  \/ \E u \in UploadIds : \E rollNumber \in RollInputs(u), answers \in FormInputs(u) :
       HandleSubmit(u, rollNumber, answers)
  \/ \E u \in UploadIds, selectFails \in BOOLEAN : CheckExisting(u, selectFails)
  \/ \E u \in UploadIds, insertFails \in BOOLEAN : InsertResponse(u, insertFails)
  \/ \E op \in inflight, uploadError \in BOOLEAN : UploadImage(op, uploadError)
  \/ \E op \in inflight, insertFails \in BOOLEAN : InsertAnswer(op, insertFails)
  \/ \E u \in UploadIds, r \in RunIds, reaches \in BOOLEAN : Invoke(u, r, reaches)
  \/ \E u \in UploadIds : EvaluationReturns(u)
  \/ \E r \in RunIds : FetchAnswers(r)
  \/ \E r \in RunIds, k1 \in RandomNumerators, k2 \in 0..(RemarkDraws - 1) :
       IssueAnswerUpdate(r, k1, k2)
  \/ \E r \in RunIds, updateAnswerError \in BOOLEAN : AwaitAnswerUpdate(r, updateAnswerError)
  \/ \E r \in RunIds, updateError \in BOOLEAN : Aggregate(r, updateError)

SpecUpload == InitUpload /\ [][NextUpload]_vars

-----------------------------------------------------------------------------
(* Specification of the uploads while the exam may be deleted              *)

NextDelete ==
  \/ NextUpload
  \/ \E e \in DOMAIN exams : DeleteExam(e)

SpecDelete == InitUpload /\ [][NextDelete]_vars

-----------------------------------------------------------------------------
(* Specification of the exam creation form                                 *)

NextCreate ==
  \/ AddQuestion
  \/ \E i \in 1..Len(form.questions) : RemoveQuestion(form.questions[i].id)
  \/ \E i \in 1..Len(form.questions), value \in FieldInputs :
       UpdateQuestion(form.questions[i].id, "questionText", value)
  \/ \E i \in 1..Len(form.questions), value \in FieldInputs :
       UpdateQuestion(form.questions[i].id, "answerKey", value)
  \/ \E i \in 1..Len(form.questions), value \in MarksInputs :
       UpdateQuestion(form.questions[i].id, "marks", ParsedMarks(value))
  \/ CreateExamSubmit
  \/ \E examError \in BOOLEAN : InsertExam(examError)
  \/ \E questionsError \in BOOLEAN : InsertQuestions(questionsError)

SpecCreate == InitUpload /\ [][NextCreate]_vars

-----------------------------------------------------------------------------
(* Specification of the OCR helper                                         *)

NextOcr ==
  \/ \E imageFile \in {Null} \cup {Some(i) : i \in Images} : SetImageFile(imageFile)
  \/ \E rec \in ocr.recognitions : Logger(rec)
  \/ \E rec \in ocr.recognitions, err \in BOOLEAN : RecognitionEnds(rec, err)

SpecOcr == InitUpload /\ [][NextOcr]_vars

-----------------------------------------------------------------------------
(* Properties of the Evaluation Trigger *)

Done(r) == runs[r].pc = "done"
IsPost(r) == Done(r) /\ runs[r].method = "POST"
Succeeded(r) == IsPost(r) /\ runs[r].response.body.kind = "success"

\* the maximum a question allows, an absent value counting as the default 1
MaximumOf(qmarks) == IF IsNull(qmarks) THEN 1 ELSE Val(qmarks)

SumOfMaxima(rows) == SumSeq([i \in 1..Len(rows) |-> MaximumOf(rows[i].marks)])

\* C1: every Answer row whose marks is non-null has 0 <= marks <= m, m >= 0 being
\* the maximum marks of its Question (so m = 0 gives marks = 0).
C1_AnswerMarksWithinMaximum ==
  \A a \in DOMAIN response_answers :
    LET marks == response_answers[a].marks
        m == questions[response_answers[a].question_id].marks
    IN (~IsNull(marks) /\ ~IsNull(m)) => (0 <= Val(marks) /\ Val(marks) <= Val(m))

\* C2: the step that ends a run with the success response writes to the
\* Submission row the sum of the marks computed in that run, the marks of
\* Answers whose own update failed included.
C2_AggregateIsSumOfComputed ==
  [][\A r \in RunIds :
       (runs[r].pc = "loop" /\ runs'[r].pc = "done"
          /\ runs'[r].response.body.kind = "success"
          /\ Val(runs[r].responseId) \in DOMAIN responses)
       => /\ responses'[Val(runs[r].responseId)].marks = Some(SumSeq(runs[r].earned))
          /\ runs'[r].response.body.totalMarks = SumSeq(runs[r].earned)]_vars

C2_Witness ==
  \E r \in RunIds :
    /\ Succeeded(r)
    /\ \E i \in runs[r].failed : runs[r].earned[i] > 0
    /\ Val(runs[r].responseId) \in DOMAIN responses
    /\ responses[Val(runs[r].responseId)].marks = Some(SumSeq(runs[r].earned))

\* C3: a POST that completes without exception returns 200 with
\* { success: true, totalMarks, answersEvaluated }, totalMarks being the value
\* written, answersEvaluated the number of rows fetched; the Submission's
\* evaluated timestamp is then set and 0 <= totalMarks <= the sum of the maximum
\* marks of the answered questions.
C3_SuccessResponseWithinMaxima ==
  \A r \in RunIds :
    (IsPost(r) /\ ~runs[r].jsonError /\ ~runs[r].answersError /\ ~runs[r].updateError)
    => /\ runs[r].response.status = 200
       /\ runs[r].response.body.kind = "success"
       /\ runs[r].response.body.success = TRUE
       /\ runs[r].response.body.totalMarks = runs[r].totalMarks
       /\ runs[r].response.body.answersEvaluated = Len(runs[r].responseAnswers)
       /\ Val(runs[r].responseId) \in DOMAIN responses
            => ~IsNull(responses[Val(runs[r].responseId)].evaluated_at)
       /\ 0 <= runs[r].response.body.totalMarks
       /\ runs[r].response.body.totalMarks <= SumOfMaxima(runs[r].responseAnswers)

\* the updates a finished run has issued for its Answers, and for its Submission
AnswerUpdatesIssued(r) == Cardinality({j \in 1..Len(runs[r].calls) : runs[r].calls[j] = "updateAnswer"})
AggregateIssued(r) == \E j \in 1..Len(runs[r].calls) : runs[r].calls[j] = "updateResponse"

\* C4: a run in which the update of an Answer failed has still issued the update
\* of every fetched Answer and the update of the Submission, and, unless that
\* last update failed itself, has returned the 200 success response.
C4_AnswerFailureTolerated ==
  \A r \in RunIds :
    (Done(r) /\ runs[r].failed # {})
    => /\ AnswerUpdatesIssued(r) = Len(runs[r].responseAnswers)
       /\ AggregateIssued(r)
       /\ ~runs[r].updateError
            => (runs[r].response.status = 200 /\ runs[r].response.body.kind = "success")

C4_Witness ==
  \E r \in RunIds :
    /\ Succeeded(r)
    /\ \E i \in runs[r].failed : i < Len(runs[r].responseAnswers)
    /\ AnswerUpdatesIssued(r) = Len(runs[r].responseAnswers)

\* C5: when the update of the Submission row fails the run returns 500 with
\* { error: message }, never the success body, and the Answers it has scored
\* keep their scores.
C5_AggregateFailureSurfaced ==
  \A r \in RunIds :
    (Done(r) /\ runs[r].updateError)
    => /\ runs[r].response.status = 500
       /\ runs[r].response.body.kind = "error"
       /\ \A i \in 1..Len(runs[r].earned) :
            (i \notin runs[r].failed /\ runs[r].responseAnswers[i].id \in DOMAIN response_answers)
            => /\ ~IsNull(response_answers[runs[r].responseAnswers[i].id].marks)
               /\ ~IsNull(response_answers[runs[r].responseAnswers[i].id].evaluated_at)

C5_Witness ==
  \E r \in RunIds :
    /\ Done(r) /\ runs[r].updateError
    /\ runs[r].response.status = 500
    /\ Len(runs[r].earned) >= 1
    /\ ~IsNull(response_answers[runs[r].responseAnswers[1].id].marks)
    /\ IsNull(responses[Val(runs[r].responseId)].marks)

\* C6: when the request body cannot be read or the select of the Answers fails,
\* the run returns 500 with { error: message } and has issued no update.
C6_ReadFailureWritesNothing ==
  \A r \in RunIds :
    (Done(r) /\ (runs[r].jsonError \/ runs[r].answersError))
    => /\ runs[r].response.status = 500
       /\ runs[r].response.body.kind = "error"
       /\ AnswerUpdatesIssued(r) = 0
       /\ ~AggregateIssued(r)
       /\ runs[r].earned = <<>>

C6_Witness ==
  /\ \E r \in RunIds : Done(r) /\ runs[r].jsonError /\ runs[r].response.status = 500
  /\ \E r \in RunIds : Done(r) /\ runs[r].answersError /\ ~IsNull(runs[r].responseId)
                        /\ runs[r].response.status = 500

\* C7 (as claimed): an OPTIONS request returns 200 with an empty body and three
\* cross-origin headers, and issues no storage call.
C7_PreflightThreeHeaders ==
  \A r \in RunIds :
    (Done(r) /\ runs[r].method = "OPTIONS")
    => /\ runs[r].response.status = 200
       /\ runs[r].response.body.kind = "empty"
       /\ Cardinality(DOMAIN runs[r].response.headers) = 3
       /\ runs[r].calls = <<>>

\* C7 (amended): an OPTIONS request returns 200 with an empty body and exactly
\* the two cross-origin headers Access-Control-Allow-Origin and
\* Access-Control-Allow-Headers, and issues no storage call.
C7_PreflightTwoHeaders ==
  \A r \in RunIds :
    (Done(r) /\ runs[r].method = "OPTIONS")
    => /\ runs[r].response.status = 200
       /\ runs[r].response.body.kind = "empty"
       /\ DOMAIN runs[r].response.headers =
            {"Access-Control-Allow-Origin", "Access-Control-Allow-Headers"}
       /\ runs[r].calls = <<>>

C7_Witness ==
  \E r \in RunIds : Done(r) /\ runs[r].method = "OPTIONS" /\ runs[r].response.status = 200

Range(t) == {t[i] : i \in DOMAIN t}

HasCors(headers) ==
  /\ {"Access-Control-Allow-Origin", "Access-Control-Allow-Headers"} \subseteq DOMAIN headers
  /\ headers["Access-Control-Allow-Origin"] = <<"*">>
  /\ {"authorization", "content-type", "x-client-info", "apikey"}
       \subseteq Range(headers["Access-Control-Allow-Headers"])

\* C8: every response (OPTIONS 200, POST 200, POST 500) carries allow-origin '*'
\* and allow-headers covering authorization, content-type, client-info, api-key.
C8_EveryResponseHasCors ==
  \A r \in RunIds : Done(r) => HasCors(runs[r].response.headers)

C8_Witness ==
  /\ \E r \in RunIds : Done(r) /\ runs[r].response.status = 500
                        /\ HasCors(runs[r].response.headers)
  /\ \E r \in RunIds : Succeeded(r) /\ HasCors(runs[r].response.headers)

\* the user who owns the exam of Submission rid
OwnerOf(rid) == exams[responses[rid].exam_id].user_id

\* run r has been given rows of its Submission, or an update it issued did not
\* fail and was let through to the rows
HasReadRows(r) == runs[r].responseAnswers # <<>>
HasWrittenRows(r) ==
  /\ PolicyAllows(ClientKey, runs[r].user, Val(runs[r].responseId))
  /\ \/ \E i \in 1..Len(runs[r].earned) : i \notin runs[r].failed
     \/ Done(r) /\ AggregateIssued(r) /\ ~runs[r].updateError

\* C11: a run that has read or changed rows of a stored Submission serves a
\* request of the user who owns that Submission's exam.
C11_TriggerActsOnlyForOwner ==
  \A r \in RunIds :
    (/\ ~IsNull(runs[r].responseId)
     /\ Val(runs[r].responseId) \in DOMAIN responses
     /\ HasReadRows(r) \/ HasWrittenRows(r))
    => runs[r].user = OwnerOf(Val(runs[r].responseId))

\* run r completed and none of its storage calls or its body read failed
Unfailed(r) ==
  /\ IsPost(r) /\ ~runs[r].jsonError /\ ~runs[r].answersError /\ ~runs[r].updateError
  /\ runs[r].failed = {}

\* the columns of an Answer row an upload sets and an evaluation leaves alone
AnswerIdentity(row) ==
  [response_id |-> row.response_id, question_id |-> row.question_id,
   image_url |-> row.image_url, answer_text |-> row.answer_text]

\* C12: every evaluation of a Submission, the first or a repeated one, that
\* completes without a failed storage call returns a body of the one shape
\* { success, totalMarks, answersEvaluated } counting the Submission's Answer
\* rows and leaves each of them scored; and no step of any run creates or
\* deletes a row: the Answer rows stay the same rows, one per (Submission,
\* Question), only their marks, remarks and timestamp being overwritten.
C12_ReinvocationKeepsShapeAndRows ==
  /\ [](\A r \in RunIds :
          Unfailed(r) =>
            /\ runs[r].response.status = 200
            /\ DOMAIN runs[r].response.body = {"kind", "success", "totalMarks", "answersEvaluated"}
            /\ runs[r].response.body.success = TRUE
            /\ runs[r].response.body.answersEvaluated =
                 Cardinality(AnswersOf(Val(runs[r].responseId)))
            /\ \A a \in AnswersOf(Val(runs[r].responseId)) :
                 /\ ~IsNull(response_answers[a].marks)
                 /\ ~IsNull(response_answers[a].remarks)
                 /\ ~IsNull(response_answers[a].evaluated_at))
  /\ [](\A a, b \in DOMAIN response_answers :
          (response_answers[a].response_id = response_answers[b].response_id
             /\ response_answers[a].question_id = response_answers[b].question_id) => a = b)
  /\ [][/\ DOMAIN response_answers' = DOMAIN response_answers
        /\ DOMAIN responses' = DOMAIN responses
        /\ \A a \in DOMAIN response_answers :
             AnswerIdentity(response_answers'[a]) = AnswerIdentity(response_answers[a])]_vars

\* two runs evaluated the same Submission with all its Answers and returned
\* different totals in the same shape
C12_Witness ==
  \E r1, r2 \in RunIds :
    /\ r1 # r2
    /\ Unfailed(r1) /\ Unfailed(r2)
    /\ runs[r1].responseId = runs[r2].responseId
    /\ Cardinality(AnswersOf(Val(runs[r1].responseId))) = MaxQuestions
    /\ runs[r1].response.body.answersEvaluated = runs[r2].response.body.answersEvaluated
    /\ runs[r1].response.body.totalMarks # runs[r2].response.body.totalMarks
    /\ DOMAIN runs[r1].response.body = DOMAIN runs[r2].response.body

\* C13: a run whose select returned no Answer, and none of whose calls failed,
\* returns success with answersEvaluated = 0 and totalMarks = 0, and the
\* Submission it names, if stored, has marks 0 and the remark
\* "Total: 0 marks. 0 questions evaluated."
C13_ZeroAnswersScoreZero ==
  \A r \in RunIds :
    (/\ IsPost(r) /\ ~runs[r].jsonError /\ ~runs[r].answersError /\ ~runs[r].updateError
     /\ runs[r].responseAnswers = <<>>)
    => /\ runs[r].response.status = 200
       /\ runs[r].response.body.kind = "success"
       /\ runs[r].response.body.answersEvaluated = 0
       /\ runs[r].response.body.totalMarks = 0
       /\ Val(runs[r].responseId) \in DOMAIN responses
            => /\ responses[Val(runs[r].responseId)].marks = Some(0)
               /\ responses[Val(runs[r].responseId)].remarks =
                    Some(<<"Total: ", 0, " marks. ", 0, " questions evaluated.">>)
               /\ ~IsNull(responses[Val(runs[r].responseId)].evaluated_at)

C13_Witness ==
  \E r \in RunIds :
    /\ Succeeded(r)
    /\ runs[r].responseAnswers = <<>>
    /\ runs[r].responseId = Some(MaxQuestions + 1)
    /\ responses[MaxQuestions + 1].marks = Some(0)
    /\ runs[r].response.body.answersEvaluated = 0

\* the updates of Answers run r has issued and not yet seen resolve
Outstanding(r) == AnswerUpdatesIssued(r) - Len(runs[r].earned)

\* a step in which run r issues the update of an Answer
IssuesAnswerUpdate(r) == Len(runs'[r].calls) = Len(runs[r].calls) + 1
                         /\ runs'[r].calls[Len(runs'[r].calls)] = "updateAnswer"

\* C14 (as claimed): the updates of a run are fired concurrently: the update of
\* an Answer after the first is issued while the update of the Answer before it
\* is still outstanding.
C14_AnswerUpdatesIssuedWithoutWaiting ==
  [][\A r \in RunIds :
       (IssuesAnswerUpdate(r) /\ AnswerUpdatesIssued(r) >= 1) => Outstanding(r) >= 1]_vars

\* C14 (amended): the updates of a run are issued one at a time: an update is
\* issued only when no update of the run is outstanding, so at most one is
\* outstanding in any state, however many Answers were fetched.
C14_AnswerUpdatesOneAtATime ==
  /\ [](\A r \in RunIds : Outstanding(r) <= 1)
  /\ [][\A r \in RunIds : IssuesAnswerUpdate(r) => Outstanding(r) = 0]_vars

\* a run over two Answers has seen the first update resolve and awaits the second
C14_Witness ==
  \E r \in RunIds :
    /\ Len(runs[r].responseAnswers) >= 2
    /\ Len(runs[r].earned) = 1
    /\ Outstanding(r) = 1

\* a step in which run r issues the update of its Submission
IssuesAggregate(r) == ~AggregateIssued(r) /\ AggregateIssued(r)'

\* C15: a run issues the update of the Submission only when the update of every
\* fetched Answer has been issued and has resolved; and only such a step changes
\* a Submission row, so a run that stops earlier leaves the Submission's marks,
\* remarks and timestamp as they were, whatever Answers it has scored.
C15_AggregateAfterAllAnswers ==
  /\ [][\A r \in RunIds :
          IssuesAggregate(r) =>
            /\ AnswerUpdatesIssued(r) = Len(runs[r].responseAnswers)
            /\ Len(runs[r].earned) = Len(runs[r].responseAnswers)
            /\ Outstanding(r) = 0]_vars
  /\ [][responses' # responses => \E r \in RunIds : IssuesAggregate(r)]_vars

\* a run has scored the first of two Answers and the Submission is still unscored
C15_Witness ==
  \E r \in RunIds :
    /\ runs[r].pc = "loop"
    /\ Len(runs[r].responseAnswers) = 2
    /\ Len(runs[r].earned) = 1
    /\ runs[r].failed = {}
    /\ ~IsNull(response_answers[runs[r].responseAnswers[1].id].marks)
    /\ IsNull(response_answers[runs[r].responseAnswers[2].id].marks)
    /\ IsNull(responses[Val(runs[r].responseId)].marks)
    /\ IsNull(responses[Val(runs[r].responseId)].evaluated_at)

\* C17: a step that changes a Submission row is the update of a run that ends
\* with success, and it sets marks, remarks and the timestamp together, remarks
\* being "Total: N marks. K questions evaluated." for the marks N written and
\* the K Answers the run evaluated; so in every state a Submission's marks is
\* null exactly when its timestamp is, and so is its remark.
C17_AggregateWrittenTogether ==
  /\ [][\A rid \in DOMAIN responses :
          responses'[rid] # responses[rid] =>
            \E r \in RunIds :
              /\ IssuesAggregate(r) /\ runs[r].responseId = Some(rid)
              /\ runs'[r].response.body.kind = "success"
              /\ ~IsNull(responses'[rid].marks)
              /\ ~IsNull(responses'[rid].evaluated_at)
              /\ Val(responses'[rid].marks) = runs'[r].response.body.totalMarks
              /\ responses'[rid].remarks =
                   Some(<<"Total: ", Val(responses'[rid].marks), " marks. ",
                          Len(runs[r].earned), " questions evaluated.">>)]_vars
  /\ [](\A rid \in DOMAIN responses :
          /\ IsNull(responses[rid].marks) <=> IsNull(responses[rid].evaluated_at)
          /\ IsNull(responses[rid].marks) <=> IsNull(responses[rid].remarks))

\* a Submission with two Answers has been scored by a run and carries the
\* remark of that run, another Submission being still unscored
C17_Witness ==
  \E r \in RunIds :
    /\ Succeeded(r)
    /\ Len(runs[r].earned) = 2
    /\ responses[Val(runs[r].responseId)].marks = Some(runs[r].totalMarks)
    /\ responses[Val(runs[r].responseId)].remarks =
         Some(<<"Total: ", runs[r].totalMarks, " marks. ", 2, " questions evaluated.">>)
    /\ ~IsNull(responses[Val(runs[r].responseId)].evaluated_at)
    /\ \E rid \in DOMAIN responses :
         IsNull(responses[rid].marks) /\ IsNull(responses[rid].evaluated_at)

\* C18: the iteration for an Answer scores it with maximum 1 when its
\* Question's marks is absent, and with exactly the Question's marks when it is
\* present; the score lies between 0 and that maximum.
C18_MaximumIsQuestionMarks ==
  [][\A r \in RunIds :
       IssuesAnswerUpdate(r) =>
         LET update == runs'[r].pending[Len(runs'[r].pending)]
             qmarks == runs[r].responseAnswers[update.i].marks
         IN /\ update.maxMarks = (IF IsNull(qmarks) THEN 1 ELSE Val(qmarks))
            /\ update.marks \in 0..update.maxMarks]_vars

\* C22: a POST whose body holds no submission id, or one that matches no
\* stored Submission, returns 500 with an error message, not the success body.
C22_MissingOrUnknownIdFails ==
  \A r \in RunIds :
    (/\ IsPost(r) /\ ~runs[r].jsonError
     /\ IsNull(runs[r].responseId) \/ Val(runs[r].responseId) \notin DOMAIN responses)
    => /\ runs[r].response.status = 500
       /\ runs[r].response.body.kind = "error"

\* the sum of the marks stored on a set of Answer rows
RECURSIVE StoredMarks(_)
StoredMarks(S) ==
  IF S = {} THEN 0
  ELSE LET a == CHOOSE x \in S : TRUE
       IN (IF IsNull(response_answers[a].marks) THEN 0 ELSE Val(response_answers[a].marks))
          + StoredMarks(S \ {a})

\* C23: when no storage call has failed and every run that was started for a
\* stored Submission has completed, at least one has, the marks on the
\* Submission row are the sum of the marks on its Answer rows; two runs for
\* the same Submission whose steps interleaved are included.
C23_SubmissionMarksAreSumOfAnswers ==
  \A rid \in DOMAIN responses :
    (/\ faults = 0
     /\ \E r \in RunIds : Succeeded(r) /\ runs[r].responseId = Some(rid)
     /\ \A r \in RunIds : runs[r].responseId = Some(rid) => Done(r))
    => responses[rid].marks = Some(StoredMarks(AnswersOf(rid)))

\* the columns of a Submission row an evaluation leaves alone
SubmissionIdentity(row) ==
  [exam_id |-> row.exam_id, roll_number |-> row.roll_number, image_url |-> row.image_url]

\* C24: a step of a run for Submission S changes no Exam and no Question,
\* creates and deletes no row, changes no Submission row but S and no Answer row
\* but those of S, and on the rows it changes leaves every column but marks,
\* remarks and the timestamp as it was.
C24_RunTouchesOnlyItsSubmission ==
  [][\A r \in RunIds :
       runs'[r] # runs[r] =>
         /\ exams' = exams /\ questions' = questions
         /\ DOMAIN responses' = DOMAIN responses
         /\ DOMAIN response_answers' = DOMAIN response_answers
         /\ \A s \in DOMAIN responses :
              /\ responses'[s] # responses[s] => runs[r].responseId = Some(s)
              /\ SubmissionIdentity(responses'[s]) = SubmissionIdentity(responses[s])
         /\ \A a \in DOMAIN response_answers :
              /\ response_answers'[a] # response_answers[a]
                   => runs[r].responseId = Some(response_answers[a].response_id)
              /\ AnswerIdentity(response_answers'[a]) = AnswerIdentity(response_answers[a])]_vars

\* a run has scored the first Submission and both its Answers while the second
\* Submission and its Answer are as they were uploaded
C24_Witness ==
  \E r \in RunIds :
    /\ Succeeded(r) /\ runs[r].responseId = Some(1) /\ runs[r].failed = {}
    /\ ~IsNull(responses[1].marks)
    /\ \A a \in AnswersOf(1) : ~IsNull(response_answers[a].marks)
    /\ Cardinality(AnswersOf(1)) = 2
    /\ IsNull(responses[2].marks)
    /\ AnswersOf(2) # {}
    /\ \A a \in AnswersOf(2) : IsNull(response_answers[a].marks)

-----------------------------------------------------------------------------
(* Properties of the upload dialog *)

\* a step in which dialog u ends handleSubmit because a Submission of its exam
\* with its trimmed roll number is already stored
RejectedAsDuplicate(u) ==
  /\ uploads[u].pc \in {"check", "insert"}
  /\ uploads'[u].pc = "idle"
  /\ ExistingResponses(TheExam, Trim(uploads[u].rollNumber)) # {}

OneSubmissionPerRoll ==
  \A a, b \in DOMAIN responses :
    (responses[a].exam_id = responses[b].exam_id
       /\ Trim(responses[a].roll_number) = Trim(responses[b].roll_number)) => a = b

\* C9: whatever the interleaving of the uploads, at most one Submission row is
\* stored per (exam id, trimmed roll number), and an upload rejected as a
\* duplicate inserts no Answer row (and starts no insert of one).
C9_UniqueSubmissionPerRoll ==
  /\ []OneSubmissionPerRoll
  /\ [][\A u \in UploadIds :
          RejectedAsDuplicate(u) =>
            /\ response_answers' = response_answers
            /\ inflight' = inflight
            /\ responses' = responses]_vars

\* two dialogs passed the check for the same roll, and the second insert was
\* rejected by the store
C9_Witness ==
  /\ faults = 0
  /\ \E u \in UploadIds :
       /\ uploads[u].pc = "idle"
       /\ uploads[u].toasts = <<"Failed to upload response">>
  /\ \E id \in DOMAIN responses : responses[id].roll_number = <<"7">>

HasContent(answers) ==
  \E q \in DOMAIN answers : ~IsNull(answers[q].answerText) \/ answers[q].imageFile

\* a step in which handleSubmit returns at the hasAnswer check
RejectedForNoAnswer(u) ==
  /\ uploads[u].pc = "idle"
  /\ uploads'[u].pc = "idle"
  /\ uploads'[u] # uploads[u]
  /\ uploads'[u].toasts = <<"Please provide at least one answer">>

\* C10: a submit in which no question has non-blank text or an image is not
\* accepted: handleSubmit goes on to its storage calls only with some content,
\* and the submit that is turned down creates no row and invokes nothing.
C10_NoAnswerNotAccepted ==
  /\ [](\A u \in UploadIds :
          uploads[u].pc \in {"check", "insert"} => HasContent(uploads[u].answers))
  /\ [][\A u \in UploadIds :
          RejectedForNoAnswer(u) =>
            /\ UNCHANGED <<dbVars, runs, inflight>>
            /\ uploads'[u].invoked = uploads[u].invoked]_vars

C10_Witness ==
  \E u \in UploadIds :
    /\ uploads[u].pc = "idle"
    /\ uploads[u].toasts = <<"Please provide at least one answer">>
    /\ uploads[u].invoked = 0
    /\ \A id \in DOMAIN responses : responses[id].roll_number # <<"7">>

\* a step in which the evaluation call of dialog u fails: the invocation throws
\* before it reaches the Trigger, or the Trigger answers with a status outside 2xx
EvaluationCallFails(u) ==
  /\ uploads'[u] # uploads[u]
  /\ \/ /\ uploads[u].pc = "answers"
        /\ \A op \in inflight : op.owner # u
        /\ uploads'[u].pc # "evaluating"
     \/ /\ uploads[u].pc = "evaluating"
        /\ runs[uploads[u].run].response.status \notin 200..299

\* C16: however the evaluation call of an upload fails, the dialog shows
\* "Response uploaded successfully!" and then the warning that evaluation
\* failed, leaves every stored row as it is (the Submission it created is still
\* stored), calls onSuccess once and is done: the evaluation was invoked once
\* and is not invoked again.
C16_EvaluationFailureHandledAlike ==
  /\ [][\A u \in UploadIds :
          EvaluationCallFails(u) =>
            /\ uploads'[u].toasts =
                 <<"Response uploaded successfully!",
                   "Response uploaded but evaluation failed. You can retry later.">>
            /\ dbVars' = dbVars
            /\ Val(uploads'[u].response) \in DOMAIN responses
            /\ uploads'[u].onSuccess = uploads[u].onSuccess + 1
            /\ uploads'[u].pc = "closed"
            /\ ~uploads'[u].isEvaluating
            /\ uploads'[u].invoked = 1]_vars
  /\ [][\A u \in UploadIds :
          uploads[u].pc = "closed" => uploads'[u] = uploads[u]]_vars

\* the Trigger was reached by the only invocation made and answered 500; the
\* dialog is closed with the warning and its Submission and an Answer are stored
C16_Witness ==
  \E u \in UploadIds :
    /\ uploads[u].pc = "closed"
    /\ uploads[u].toasts[Len(uploads[u].toasts)] =
         "Response uploaded but evaluation failed. You can retry later."
    /\ uploads[u].onSuccess = 1
    /\ now = 1
    /\ \A v \in UploadIds : uploads[v].invoked = IF v = u THEN 1 ELSE 0
    /\ \E a \in DOMAIN response_answers :
         response_answers[a].response_id = Val(uploads[u].response)

\* an Answer row holds an image, or a text that is trimmed and not blank
HoldsContent(row) ==
  \/ ~IsNull(row.image_url)
  \/ /\ ~IsNull(row.answer_text)
     /\ Val(row.answer_text) # <<>>
     /\ Trim(Val(row.answer_text)) = Val(row.answer_text)

\* C19: whatever uploads have run, (1) no two Answer rows share a Submission
\* and a Question; (2) every Answer row holds an image or non-blank trimmed
\* text, (3) the insert of an Answer is started only by a submit whose input for
\* that question holds text (non-blank once trimmed) or an image, and (4) a row
\* appears only by such an insert, with null marks, remarks and timestamp;
\* (5) a stored Answer row changes only when an evaluation run's update of it
\* takes effect.
C19_AnswerRowsUniqueAndWarranted ==
  /\ [](\A a, b \in DOMAIN response_answers :
          (response_answers[a].response_id = response_answers[b].response_id
             /\ response_answers[a].question_id = response_answers[b].question_id) => a = b)
  /\ [](\A a \in DOMAIN response_answers : HoldsContent(response_answers[a]))
  /\ [][\A op \in inflight' :
          (~\E old \in inflight : old.response_id = op.response_id
                                   /\ old.question_id = op.question_id)
          => \E u \in UploadIds :
               /\ uploads[u].pc = "insert"
               /\ uploads'[u].response = Some(op.response_id)
               /\ \/ uploads[u].answers[op.question_id].imageFile
                  \/ ~IsNull(uploads[u].answers[op.question_id].answerText)]_vars
  /\ [][\A a \in DOMAIN response_answers' \ DOMAIN response_answers :
          /\ IsNull(response_answers'[a].marks)
          /\ IsNull(response_answers'[a].remarks)
          /\ IsNull(response_answers'[a].evaluated_at)
          /\ \E op \in inflight \ inflight' :
               /\ op.response_id = response_answers'[a].response_id
               /\ op.question_id = response_answers'[a].question_id]_vars
  /\ [][\A a \in DOMAIN response_answers :
          response_answers'[a] # response_answers[a] =>
            \E r \in RunIds :
              /\ runs[r].pending # <<>>
              /\ Head(runs[r].pending).id = a
              /\ runs'[r].pending = Tail(runs[r].pending)]_vars

\* an upload has finished its inserts having stored an Answer with an image for
\* the second question and none for the first, and the row is not yet scored
C19_Witness ==
  \E u \in UploadIds :
    /\ uploads[u].pc \in {"evaluating", "closed"}
    /\ \E a \in DOMAIN response_answers :
         /\ response_answers[a].response_id = Val(uploads[u].response)
         /\ response_answers[a].question_id = 2
         /\ ~IsNull(response_answers[a].image_url)
         /\ IsNull(response_answers[a].marks)
    /\ ~\E a \in DOMAIN response_answers :
         /\ response_answers[a].response_id = Val(uploads[u].response)
         /\ response_answers[a].question_id = 1

\* a step in which dialog u invokes the Trigger, whether or not the invocation
\* reaches it
Invokes(u) ==
  \/ uploads'[u].invoked # uploads[u].invoked
  \/ \E r \in RunIds : runs[r].pc = "idle" /\ runs'[r].pc # "idle" /\ runs'[r].caller = u

\* C20: a dialog invokes the Trigger at most once, and does so only when its
\* submit has stored the Submission row and none of the Answer inserts (or image
\* uploads) it started is still running; the step in which the insert of the
\* Submission or the upload of an image fails ends the submit without an
\* invocation.
C20_InvokedOnceAfterInserts ==
  /\ [](\A u \in UploadIds : uploads[u].invoked <= 1)
  /\ [][\A u \in UploadIds :
          Invokes(u) =>
            /\ uploads[u].invoked = 0 /\ uploads'[u].invoked = 1
            /\ ~\E r \in RunIds : runs[r].pc # "idle" /\ runs[r].caller = u
            /\ ~IsNull(uploads[u].response)
            /\ Val(uploads[u].response) \in DOMAIN responses
            /\ ~\E op \in inflight : op.response_id = Val(uploads[u].response)]_vars
  /\ [][\A u \in UploadIds :
          (uploads[u].pc \in {"insert", "answers"} /\ uploads'[u].pc = "idle")
          => /\ ~Invokes(u)
             /\ uploads'[u].invoked = 0
             /\ IsNull(uploads'[u].response)
             /\ runs' = runs]_vars

\* one dialog has invoked the Trigger with both its Answers stored, while the
\* submit of the other failed at the insert of its Submission and invoked nothing
C20_Witness ==
  \E u, v \in UploadIds :
    /\ uploads[u].pc = "evaluating" /\ uploads[u].invoked = 1
    /\ Cardinality({a \in DOMAIN response_answers :
                      response_answers[a].response_id = Val(uploads[u].response)}) = 2
    /\ uploads[v].pc = "idle" /\ uploads[v].invoked = 0
    /\ uploads[v].toasts = <<"Failed to upload response">>

\* the upload action that inserted Submission s has ended: no handleSubmit holds
\* s while its answers are being stored, and no promise for s is still running
UploadEnded(s) ==
  /\ \A u \in UploadIds : uploads[u].response = Some(s) => uploads[u].pc # "answers"
  /\ \A op \in inflight : op.response_id # s

\* C28: once the upload action that inserted a Submission has ended, by the
\* report of a successful upload or by a failure, the Submission is not left
\* without an Answer row (an accepted upload has content for some question).
C28_NoSubmissionWithoutAnswers ==
  \A s \in DOMAIN responses :
    UploadEnded(s) => \E a \in DOMAIN response_answers : response_answers[a].response_id = s

\* a handleSubmit of dialog u is in flight
InFlight(u) == uploads[u].pc \in {"check", "insert", "answers", "evaluating"}

\* C29: while a handleSubmit of a dialog is in flight its submit button is
\* disabled, so no second one starts; and whenever handleSubmit has ended with
\* the dialog still open (validation failure, duplicate roll number, upload
\* error) isUploading and isEvaluating are both false and the button is enabled.
C29_OneUploadAtATime ==
  \A u \in UploadIds :
    /\ InFlight(u) => ~SubmitEnabled(uploads[u])
    /\ uploads[u].pc = "idle" =>
         ~uploads[u].isUploading /\ ~uploads[u].isEvaluating /\ SubmitEnabled(uploads[u])

\* a handleSubmit has ended in its catch with the dialog open and both flags
\* false, while a handleSubmit of a dialog is in flight
C29_Witness ==
  /\ \E u \in UploadIds :
       /\ uploads[u].pc = "idle"
       /\ uploads[u].toasts = <<"Failed to upload response">>
       /\ ~uploads[u].isUploading /\ ~uploads[u].isEvaluating
  /\ \E u \in UploadIds : InFlight(u) /\ uploads[u].isUploading

-----------------------------------------------------------------------------
(* Properties of the schema *)

\* C21: in every state each Question and each Submission names a stored Exam,
\* and each Answer names a stored Submission and a stored Question; the delete
\* of an Exam leaves no Question or Submission of it, nor an Answer of these.
C21_ReferencesExist ==
  /\ \A q \in DOMAIN questions : questions[q].exam_id \in DOMAIN exams
  /\ \A s \in DOMAIN responses : responses[s].exam_id \in DOMAIN exams
  /\ \A a \in DOMAIN response_answers :
       /\ response_answers[a].response_id \in DOMAIN responses
       /\ response_answers[a].question_id \in DOMAIN questions

\* the exam was deleted after an upload had stored a Submission for it, and the
\* Submission is gone with its Answers and the exam's Questions
C21_Witness ==
  /\ DOMAIN exams = {}
  /\ DOMAIN questions = {} /\ DOMAIN responses = {} /\ DOMAIN response_answers = {}
  /\ \E u \in UploadIds :
       /\ uploads[u].pc = "closed"
       /\ ~IsNull(uploads[u].response)
       /\ uploads[u].toasts[Len(uploads[u].toasts)] = "Response evaluated successfully!"

-----------------------------------------------------------------------------
(* Properties of the exam creation form *)

\* the questions stored for an exam
QuestionsOfExam(e) == {q \in DOMAIN questions : questions[q].exam_id = e}

\* C25: whatever questions were added and removed, the list of the form is
\* never empty, and an exam the form has created and navigated to is stored
\* with at least one question.
C25_QuestionListNeverEmpty ==
  /\ Len(form.questions) >= 1
  /\ form.pc = "navigated" => QuestionsOfExam(Val(form.exam)) # {}

\* C26: whatever questions were added and removed, no two questions of the
\* list have the same id.
C26_QuestionIdsDistinct ==
  \A i, j \in 1..Len(form.questions) :
    form.questions[i].id = form.questions[j].id => i = j

\* the exam is stored with exactly the submitted questions, numbered 1..n in
\* the order of the form
StoredInFormOrder(e, list) ==
  /\ e \in DOMAIN exams'
  /\ Cardinality(QuestionsOfExam(e)') = Len(list)
  /\ \A i \in 1..Len(list) :
       \E q \in QuestionsOfExam(e)' :
         /\ questions'[q].question_number = i
         /\ questions'[q].question_text = Trim(list[i].questionText)
         /\ questions'[q].answer_key = Trim(list[i].answerKey)
         /\ questions'[q].marks = Some(list[i].marks)

\* C27: the step that ends the insert of the questions either stores the exam
\* with all its questions, numbered 1..n without gaps in form order, or, the
\* insert having failed, leaves no exam row of that submit stored.
C27_CreateAllOrNothing ==
  [][(form.pc = "insertQuestions" /\ form'.pc # "insertQuestions") =>
       IF form'.pc = "navigated"
         THEN StoredInFormOrder(Val(form.exam), form.submitted)
         ELSE Val(form.exam) \notin DOMAIN exams']_vars

-----------------------------------------------------------------------------
(* Properties of the OCR helper *)

\* C30: once every recognition has finished, none of them with an error, the
\* text shown and the text last passed to onTextExtracted are the text of the
\* image supplied last, in whatever order the recognitions completed.
C30_FinalTextIsOfLatestImage ==
  (/\ ocr.recognitions = {}
   /\ ~IsNull(ocr.imageFile)
   /\ faults = 0) =>
     /\ ocr.text = TextOf(Val(ocr.imageFile))
     /\ ocr.extracted # <<>>
     /\ ocr.extracted[Len(ocr.extracted)] = TextOf(Val(ocr.imageFile))

====
